---- MODULE Spec2Model ----
(***************************************************************************)
(* Model of the task store of puglao/todo (internal/models/todo.go):       *)
(* TodoStore.AddTodo, GetTodos, ToggleTodo and DeleteTodo over the SQLite  *)
(* table `todos`, guarded by the store's sync.RWMutex, called by several   *)
(* concurrent request goroutines.                                          *)
(*                                                                         *)
(* A text is kept run-length encoded: a sequence of runs [ch, n], n > 0,   *)
(* adjacent runs of different characters.  A character is a letter of one  *)
(* byte ("a", "b"), the space ("sp", one byte, white space) or a rune of   *)
(* two bytes in UTF-8 ("e2", such as U+00E9).                              *)
(***************************************************************************)
EXTENDS Integers, Sequences, FiniteSets, TLC

\* ------------------------------------------------------------------ bounds
NumProcs == 2
MaxSeq == 2
MaxClock == 2
MaxFaults == 1
MaxRequests == 2
MaxRestarts == 1

\* ------------------------------------------------------- program constants
MaxTextLen == 500

Procs == 1..NumProcs

\* ------------------------------------------------------------------- texts
Run(c, n) == [ch |-> c, n |-> n]

Width(c) == IF c = "e2" THEN 2 ELSE 1

IsSpace(c) == c = "sp"

RECURSIVE TrimLeft(_)
TrimLeft(t) ==
    IF t = <<>> THEN <<>>
    ELSE IF IsSpace(Head(t).ch) THEN TrimLeft(Tail(t))
    ELSE t

RECURSIVE TrimRight(_)
TrimRight(t) ==
    IF t = <<>> THEN <<>>
    ELSE IF IsSpace(t[Len(t)].ch) THEN TrimRight(SubSeq(t, 1, Len(t) - 1))
    ELSE t

\* strings.TrimSpace
TrimSpace(t) == TrimRight(TrimLeft(t))

\* len(text): the number of BYTES of the string
RECURSIVE ByteLen(_)
ByteLen(t) ==
    IF t = <<>> THEN 0
    ELSE Head(t).n * Width(Head(t).ch) + ByteLen(Tail(t))

\* the texts the callers submit
Texts ==
    { <<>>,
      << Run("sp", 3) >>,
      << Run("sp", 2), Run("b", 1), Run("sp", 1), Run("b", 1), Run("sp", 2) >>,
      << Run("sp", 1), Run("a", MaxTextLen), Run("sp", 1) >>,
      << Run("a", MaxTextLen + 1) >>,
      << Run("e2", MaxTextLen \div 2 + 1) >> }

\* ------------------------------------------------------------------ errors
Nil == "nil"
ErrEmpty == "todo text cannot be empty"
ErrTooLong == "todo text cannot exceed 500 characters"
ErrInvalidID == "invalid todo ID"
ErrNotFound == "todo not found"
\* the errors of the database driver, by the call that returns them
ErrExec == "db.Exec failed"
ErrLastInsertId == "result.LastInsertId failed"
ErrRowsAffected == "result.RowsAffected failed"
ErrQuery == "db.Query failed"
ErrRows == "rows.Err"

StorageErrors == {ErrExec, ErrLastInsertId, ErrRowsAffected, ErrQuery, ErrRows}

ValidationErrors == {ErrEmpty, ErrTooLong}

\* a validation that does not trim the text before it looks at it
validateTodoText_noTrim(text) ==
    IF text = <<>> THEN ErrEmpty
    ELSE IF ByteLen(text) > MaxTextLen THEN ErrTooLong
    ELSE Nil

\* a validation without the limit of the length
validateTodoText_noLimit(text) ==
    IF TrimSpace(text) = <<>> THEN ErrEmpty ELSE Nil

validateTodoText(text) ==
    LET t == TrimSpace(text)
    IN  IF t = <<>> THEN ErrEmpty
        ELSE IF ByteLen(t) > MaxTextLen THEN ErrTooLong
        ELSE Nil

\* ------------------------------------------------------------------- state
VARIABLES
    todos,      \* the rows of table todos: [id, text, completed, created_at]
    seq,        \* sqlite_sequence of todos: the largest id ever given out
    clock,      \* the latest time.Now() an AddTodo read
    writer,     \* the caller holding ts.mu.Lock(), 0 when none
    readers,    \* the callers holding ts.mu.RLock()
    pc,         \* each caller's position in the operation it runs
    call,       \* each caller's operation and arguments
    loc,        \* each caller's local variables (result, now, rowsAffected)
    pre,        \* history: the rows when the caller took the write lock
    ret,        \* what the operation returned to the caller
    added,      \* history: the ids successful AddTodo calls returned, in order
    deleted,    \* history: the ids successful DeleteTodo calls deleted
    ever,       \* history: every id a row of the table ever had
    racing,     \* history: the ids of successful AddTodo calls that ran while
                \* another successful AddTodo call ran
    faults,     \* history: the number of failures of the database so far
    toggled,    \* history: [id, before] when the latest statement that
                \* changed task id was the UPDATE of a ToggleTodo that
                \* returned nil; before is its completed flag before it
    remover,    \* history: << id, p >> when the DELETE of caller p removed
                \* task id
    http,       \* each request goroutine's HTTP request and its response
    epoch       \* history: the number of times the store was opened again

vars == << todos, seq, clock, writer, readers, pc, call, loc, pre, ret, added,
           deleted, ever, racing, faults, toggled, remover, http, epoch >>

ZeroTodo == [id |-> 0, text |-> <<>>, completed |-> FALSE, created_at |-> 0]

\* seen: history, of a GetTodos or AddTodo call: the ids successful AddTodo
\* calls had returned when the call was made;
\* gone: history, of a ToggleTodo or DeleteTodo call: whether a DeleteTodo of
\* the same id had succeeded when the call was made;
\* live: history, of a ToggleTodo or DeleteTodo call: whether the task was in
\* the collection when the call was made
NoCall == [op |-> "none", text |-> <<>>, id |-> 0, seen |-> {}, gone |-> FALSE,
           live |-> FALSE]

NoLoc == [id |-> 0, now |-> 0, n |-> 0, cmds |-> 0]

\* cmds: history, the number of statements the call sent to the database
NoRet == [err |-> "nil", todo |-> ZeroTodo, list |-> <<>>, cmds |-> 0]

\* no request: handler, method, form value text, path id, the position of the
\* handler and the status of the response written;
\* n: history, the number of requests the goroutine slot has served
NoRequest == [handler |-> "none", method |-> "", text |-> <<>>, path |-> <<>>,
              phase |-> "idle", status |-> 0, n |-> 0]

\* the ids the callers pass to Toggle and Delete
IdArgs == (0 - 1)..MaxSeq

Ids(rows) == {t.id : t \in rows}

Range(s) == {s[i] : i \in DOMAIN s}

MaxOf(S) == IF S = {} THEN 0 ELSE CHOOSE x \in S : \A y \in S : y <= x

Init ==
    /\ todos = {}
    /\ seq = 0
    /\ clock = 0
    /\ writer = 0
    /\ readers = {}
    /\ pc = [p \in Procs |-> "idle"]
    /\ call = [p \in Procs |-> NoCall]
    /\ loc = [p \in Procs |-> NoLoc]
    /\ pre = [p \in Procs |-> {}]
    /\ ret = [p \in Procs |-> NoRet]
    /\ added = <<>>
    /\ deleted = {}
    /\ ever = {}
    /\ racing = {}
    /\ faults = 0
    /\ toggled = {}
    /\ remover = {}
    /\ http = [p \in Procs |-> NoRequest]
    /\ epoch = 0

\* ---------------------------------------------------------------- the lock
\* a Lock that waits for the writer only, as a plain Mutex beside RLock would
CanLock_ignoreReaders == writer = 0

\* sync.RWMutex: Lock waits for the writer and the readers to leave
CanLock == writer = 0 /\ readers = {}

\* sync.RWMutex: RLock waits for the writer to leave
CanRLock == writer = 0

\* ------------------------------------------------------------ the database
\* INTEGER PRIMARY KEY without AUTOINCREMENT: one more than the largest id in
\* the table now
AutoIncrement_rowid(rows, s) == MaxOf(Ids(rows)) + 1

\* an id counted from the number of rows, as a slice index would be
AutoIncrement_count(rows, s) == Cardinality(rows) + 1

\* INTEGER PRIMARY KEY AUTOINCREMENT: one more than the largest id the table
\* ever held (sqlite_sequence), never an id used before
AutoIncrement(rows, s) ==
    (IF s > MaxOf(Ids(rows)) THEN s ELSE MaxOf(Ids(rows))) + 1

\* INSERT INTO todos (text, completed, created_at) VALUES (?, ?, ?)
InsertRow(rows, s, text, completed, now) ==
    [id |-> AutoIncrement(rows, s), text |-> text, completed |-> completed,
     created_at |-> now]

\* an UPDATE that sets the flag: SET completed = 1 WHERE id = ?
UpdateNotCompleted_setTrue(rows, id) ==
    {IF t.id = id THEN [t EXCEPT !.completed = TRUE] ELSE t : t \in rows}

\* an UPDATE without its WHERE: SET completed = NOT completed
UpdateNotCompleted_all(rows, id) ==
    {[t EXCEPT !.completed = ~t.completed] : t \in rows}

\* UPDATE todos SET completed = NOT completed WHERE id = ?
UpdateNotCompleted(rows, id) ==
    {IF t.id = id THEN [t EXCEPT !.completed = ~t.completed] ELSE t :
        t \in rows}

\* a DELETE of the rows up to the id: WHERE id <= ?
DeleteWhereId_upTo(rows, id) == {t \in rows : t.id > id}

\* DELETE FROM todos WHERE id = ?
DeleteWhereId(rows, id) == {t \in rows : t.id # id}

\* a result that reports one row whatever the statement matched
RowsAffected_one(rows, id) == 1

\* result.RowsAffected() of the UPDATE and of the DELETE
RowsAffected(rows, id) == Cardinality({t \in rows : t.id = id})

\* SELECT ... FROM todos ORDER BY created_at DESC: the orders the statement
\* may return the rows in (rows of equal created_at come in any order)
SelectOrderByCreatedAtDesc(rows) ==
    {s \in [1..Cardinality(rows) -> rows] :
        /\ \A i, j \in 1..Cardinality(rows) : i # j => s[i] # s[j]
        /\ \A i, j \in 1..Cardinality(rows) :
              i < j => s[i].created_at >= s[j].created_at}

\* the rows of `rows` at the positions outside `skip`, in order
RECURSIVE Keep(_, _, _)
Keep(rows, skip, i) ==
    IF i > Len(rows) THEN <<>>
    ELSE (IF i \in skip THEN <<>> ELSE << rows[i] >>) \o Keep(rows, skip, i + 1)

\* ------------------------------------------------------- call and return
\* a request goroutine calls an operation of the store
Call(p, op, text, id) ==
    /\ pc[p] = "idle"
    /\ call' = [call EXCEPT ![p] =
                    [op |-> op, text |-> text, id |-> id,
                     seen |-> IF op \in {"list", "add"} THEN Range(added)
                              ELSE {},
                     gone |-> op \in {"toggle", "delete"} /\ id \in deleted,
                     live |-> op \in {"toggle", "delete"}
                                 /\ id \in Ids(todos)]]

\* the operation returns (the deferred Unlock is in the action that returns)
Return(p, err, todo, list, cmds) ==
    /\ pc' = [pc EXCEPT ![p] = "done"]
    /\ ret' = [ret EXCEPT ![p] = [err |-> err, todo |-> todo, list |-> list,
                                   cmds |-> cmds]]
    /\ loc' = [loc EXCEPT ![p] = NoLoc]
    /\ pre' = [pre EXCEPT ![p] = {}]

\* the caller takes the result and is free for its next request
Done(p) ==
    /\ pc[p] = "done"
    /\ pc' = [pc EXCEPT ![p] = "idle"]
    /\ call' = [call EXCEPT ![p] = NoCall]
    /\ ret' = [ret EXCEPT ![p] = NoRet]
    /\ UNCHANGED << todos, seq, clock, writer, readers, loc, pre, added,
                    deleted, ever, toggled, remover, racing, faults, http,
                    epoch >>

\* time.Now(): the time of the latest reading, or a later one
Now == {t \in {clock, clock + 1} : 1 <= t /\ t <= MaxClock}

\* the callers that may still insert a row (the model stops at MaxSeq rows)
AddsInFlight == Cardinality({q \in Procs : pc[q] = "add_lock"})

\* ----------------------------------------------------------------- AddTodo
\* the call, validateTodoText and strings.TrimSpace
AddTodoValidate(p, text) ==
    /\ Call(p, "add", text, 0)
    /\ IF validateTodoText(text) # Nil
       THEN /\ Return(p, validateTodoText(text), ZeroTodo, <<>>, 0)
            /\ UNCHANGED << todos, seq, clock, writer, readers, added,
                            deleted, ever, toggled, remover, racing, faults,
                            http, epoch >>
       ELSE /\ seq + AddsInFlight < MaxSeq
            /\ pc' = [pc EXCEPT ![p] = "add_lock"]
            /\ UNCHANGED << todos, seq, clock, writer, readers, loc, pre, ret,
                            added, deleted, ever, toggled, remover, racing,
                            faults, http, epoch >>

\* an AddTodo that inserts the text as it was passed, not the trimmed one
AddTodoExec_rawText(p) ==
    /\ pc[p] = "add_lock"
    /\ CanLock
    /\ writer' = p
    /\ pre' = [pre EXCEPT ![p] = todos]
    /\ \E now \in Now :
         LET row == InsertRow(todos, seq, call[p].text, FALSE, now)
         IN  /\ clock' = now
             /\ todos' = todos \cup {row}
             /\ seq' = row.id
             /\ ever' = ever \cup {row.id}
             /\ loc' = [loc EXCEPT ![p] = [id |-> row.id, now |-> now,
                                           n |-> 1, cmds |-> 1]]
    /\ pc' = [pc EXCEPT ![p] = "add_lastid"]
    /\ UNCHANGED << readers, call, ret, added, deleted, racing, faults,
                    toggled, remover, http, epoch >>

\* ts.mu.Lock(); now := time.Now(); ts.db.Exec(INSERT ...) succeeds
AddTodoExec(p) ==
    /\ pc[p] = "add_lock"
    /\ CanLock
    /\ writer' = p
    /\ pre' = [pre EXCEPT ![p] = todos]
    /\ \E now \in Now :
         LET row == InsertRow(todos, seq, TrimSpace(call[p].text), FALSE, now)
         IN  /\ clock' = now
             /\ todos' = todos \cup {row}
             /\ seq' = row.id
             /\ ever' = ever \cup {row.id}
             /\ loc' = [loc EXCEPT ![p] = [id |-> row.id, now |-> now,
                                           n |-> 1, cmds |-> 1]]
    /\ pc' = [pc EXCEPT ![p] = "add_lastid"]
    /\ UNCHANGED << readers, call, ret, added, deleted, racing, faults,
                    toggled, remover, http, epoch >>

\* ts.mu.Lock(); ts.db.Exec(INSERT ...) fails: nothing is inserted, the error
\* is returned (and the lock released)
AddTodoExecErr(p) ==
    /\ pc[p] = "add_lock"
    /\ CanLock
    /\ faults < MaxFaults
    /\ faults' = faults + 1
    /\ Return(p, ErrExec, ZeroTodo, <<>>, 1)
    /\ UNCHANGED << todos, seq, clock, writer, readers, call, added, deleted,
                    ever, toggled, remover, racing, http, epoch >>

\* result.LastInsertId() succeeds: the Todo is returned
AddTodoLastInsertId(p) ==
    /\ pc[p] = "add_lastid"
    /\ writer' = 0
    /\ added' = Append(added, loc[p].id)
    /\ racing' = IF Range(added) \subseteq call[p].seen THEN racing
                 ELSE racing \cup {loc[p].id} \cup (Range(added) \ call[p].seen)
    /\ Return(p, Nil,
              [id |-> loc[p].id, text |-> TrimSpace(call[p].text),
               completed |-> FALSE, created_at |-> loc[p].now], <<>>,
              loc[p].cmds)
    /\ UNCHANGED << todos, seq, clock, readers, call, deleted, ever, toggled,
                    remover, faults, http, epoch >>

\* result.LastInsertId() fails: the error is returned, the row stays inserted
AddTodoLastInsertIdErr(p) ==
    /\ pc[p] = "add_lastid"
    /\ faults < MaxFaults
    /\ faults' = faults + 1
    /\ writer' = 0
    /\ Return(p, ErrLastInsertId, ZeroTodo, <<>>, loc[p].cmds)
    /\ UNCHANGED << todos, seq, clock, readers, call, added, deleted, ever,
                    toggled, remover, racing, http, epoch >>

\* ---------------------------------------------------------------- GetTodos
\* the call
GetTodosCall(p) ==
    /\ Call(p, "list", <<>>, 0)
    /\ pc' = [pc EXCEPT ![p] = "list_rlock"]
    /\ UNCHANGED << todos, seq, clock, writer, readers, loc, pre, ret, added,
                    deleted, ever, toggled, remover, racing, faults, http,
                    epoch >>

\* ts.mu.RLock(); ts.db.Query(SELECT ...) succeeds
GetTodosQuery(p) ==
    /\ pc[p] = "list_rlock"
    /\ CanRLock
    /\ readers' = readers \cup {p}
    /\ loc' = [loc EXCEPT ![p] = [NoLoc EXCEPT !.cmds = 1]]
    /\ pc' = [pc EXCEPT ![p] = "list_rows"]
    /\ UNCHANGED << todos, seq, clock, writer, call, pre, ret, added, deleted,
                    ever, toggled, remover, racing, faults, http, epoch >>

\* ts.mu.RLock(); ts.db.Query(SELECT ...) fails
GetTodosQueryErr(p) ==
    /\ pc[p] = "list_rlock"
    /\ CanRLock
    /\ faults < MaxFaults
    /\ faults' = faults + 1
    /\ Return(p, ErrQuery, ZeroTodo, <<>>, 1)
    /\ UNCHANGED << todos, seq, clock, writer, readers, call, added, deleted,
                    ever, toggled, remover, racing, http, epoch >>

\* every rows.Scan of the loop over rows.Next() succeeds and rows.Err() is
\* nil: the todos are returned
GetTodosRows(p) ==
    /\ pc[p] = "list_rows"
    /\ \E rows \in SelectOrderByCreatedAtDesc(todos) :
          Return(p, Nil, ZeroTodo, rows, loc[p].cmds)
    /\ readers' = readers \ {p}
    /\ UNCHANGED << todos, seq, clock, writer, call, added, deleted, ever,
                    toggled, remover, racing, faults, http, epoch >>

\* rows.Scan fails for the rows at the positions `skip`: the loop logs the
\* error and goes on (continue) without the row; rows.Err() is nil and the
\* todos appended are returned with a nil error
GetTodosRowsScanErr(p) ==
    /\ pc[p] = "list_rows"
    /\ \E rows \in SelectOrderByCreatedAtDesc(todos) :
       \E skip \in (SUBSET (1..Len(rows))) \ {{}} :
          /\ faults + Cardinality(skip) <= MaxFaults
          /\ faults' = faults + Cardinality(skip)
          /\ Return(p, Nil, ZeroTodo, Keep(rows, skip, 1), loc[p].cmds)
    /\ readers' = readers \ {p}
    /\ UNCHANGED << todos, seq, clock, writer, call, added, deleted, ever,
                    toggled, remover, racing, http, epoch >>

\* a return on rows.Err() that leaves the read lock held
GetTodosRowsErr_noRUnlock(p) ==
    /\ pc[p] = "list_rows"
    /\ faults < MaxFaults
    /\ faults' = faults + 1
    /\ Return(p, ErrRows, ZeroTodo, <<>>, loc[p].cmds)
    /\ UNCHANGED << todos, seq, clock, writer, readers, call, added, deleted,
                    ever, toggled, remover, racing, http, epoch >>

\* the loop ends and rows.Err() is not nil: nil and the error are returned
GetTodosRowsErr(p) ==
    /\ pc[p] = "list_rows"
    /\ faults < MaxFaults
    /\ faults' = faults + 1
    /\ readers' = readers \ {p}
    /\ Return(p, ErrRows, ZeroTodo, <<>>, loc[p].cmds)
    /\ UNCHANGED << todos, seq, clock, writer, call, added, deleted, ever,
                    toggled, remover, racing, http, epoch >>

\* -------------------------------------------------------------- ToggleTodo
\* the row of `rows` with the id
RowOf(rows, id) ==
    IF id \in Ids(rows) THEN CHOOSE t \in rows : t.id = id ELSE ZeroTodo

\* the history of task id is forgotten
Forget(h, id) == {e \in h : e.id # id}

\* a check of the id that lets 0 through: id < 0
ToggleTodoEnter_zeroOk(p, id) ==
    /\ Call(p, "toggle", <<>>, id)
    /\ IF id < 0
       THEN /\ Return(p, ErrInvalidID, ZeroTodo, <<>>, 0)
            /\ UNCHANGED << todos, seq, clock, writer, readers, added,
                            deleted, ever, toggled, remover, racing, faults,
                            http, epoch >>
       ELSE /\ pc' = [pc EXCEPT ![p] = "toggle_lock"]
            /\ UNCHANGED << todos, seq, clock, writer, readers, loc, pre, ret,
                            added, deleted, ever, toggled, remover, racing,
                            faults, http, epoch >>

\* the call and the check of the id
ToggleTodoEnter(p, id) ==
    /\ Call(p, "toggle", <<>>, id)
    /\ IF id <= 0
       THEN /\ Return(p, ErrInvalidID, ZeroTodo, <<>>, 0)
            /\ UNCHANGED << todos, seq, clock, writer, readers, added,
                            deleted, ever, toggled, remover, racing, faults,
                            http, epoch >>
       ELSE /\ pc' = [pc EXCEPT ![p] = "toggle_lock"]
            /\ UNCHANGED << todos, seq, clock, writer, readers, loc, pre, ret,
                            added, deleted, ever, toggled, remover, racing,
                            faults, http, epoch >>

\* ts.mu.Lock(); ts.db.Exec(UPDATE ...) succeeds
ToggleTodoExec(p) ==
    /\ pc[p] = "toggle_lock"
    /\ CanLock
    /\ writer' = p
    /\ pre' = [pre EXCEPT ![p] = todos]
    /\ todos' = UpdateNotCompleted(todos, call[p].id)
    /\ loc' = [loc EXCEPT ![p] = [id |-> 0, now |-> 0,
                                   n |-> RowsAffected(todos, call[p].id),
                                   cmds |-> 1]]
    /\ pc' = [pc EXCEPT ![p] = "toggle_rows"]
    /\ UNCHANGED << seq, clock, readers, call, ret, added, deleted, ever,
                    toggled, remover, racing, faults, http, epoch >>

\* a failure of ts.db.Exec(UPDATE ...) reported as todo not found
ToggleTodoExecErr_notFound(p) ==
    /\ pc[p] = "toggle_lock"
    /\ CanLock
    /\ faults < MaxFaults
    /\ faults' = faults + 1
    /\ Return(p, ErrNotFound, ZeroTodo, <<>>, 1)
    /\ UNCHANGED << todos, seq, clock, writer, readers, call, added, deleted,
                    ever, toggled, remover, racing, http, epoch >>

\* ts.mu.Lock(); ts.db.Exec(UPDATE ...) fails: nothing is updated
ToggleTodoExecErr(p) ==
    /\ pc[p] = "toggle_lock"
    /\ CanLock
    /\ faults < MaxFaults
    /\ faults' = faults + 1
    /\ Return(p, ErrExec, ZeroTodo, <<>>, 1)
    /\ UNCHANGED << todos, seq, clock, writer, readers, call, added, deleted,
                    ever, toggled, remover, racing, http, epoch >>

\* a ToggleTodo that returns nil whatever result.RowsAffected() is
ToggleTodoRowsAffected_ok(p) ==
    /\ pc[p] = "toggle_rows"
    /\ writer' = 0
    /\ Return(p, Nil, ZeroTodo, <<>>, loc[p].cmds)
    /\ toggled' = IF loc[p].n = 0 THEN toggled
                  ELSE Forget(toggled, call[p].id)
                         \cup {[id |-> call[p].id,
                                 before |->
                                     RowOf(pre[p], call[p].id).completed]}
    /\ UNCHANGED << todos, seq, clock, readers, call, added, deleted, ever,
                    remover, racing, faults, http, epoch >>

\* result.RowsAffected() succeeds: not found when it is 0, nil otherwise
ToggleTodoRowsAffected(p) ==
    /\ pc[p] = "toggle_rows"
    /\ writer' = 0
    /\ Return(p, IF loc[p].n = 0 THEN ErrNotFound ELSE Nil, ZeroTodo, <<>>,
              loc[p].cmds)
    /\ toggled' = IF loc[p].n = 0 THEN toggled
                  ELSE Forget(toggled, call[p].id)
                         \cup {[id |-> call[p].id,
                                 before |->
                                     RowOf(pre[p], call[p].id).completed]}
    /\ UNCHANGED << todos, seq, clock, readers, call, added, deleted, ever,
                    remover, racing, faults, http, epoch >>

\* result.RowsAffected() fails: the error is returned, the update stays
ToggleTodoRowsAffectedErr(p) ==
    /\ pc[p] = "toggle_rows"
    /\ faults < MaxFaults
    /\ faults' = faults + 1
    /\ writer' = 0
    /\ Return(p, ErrRowsAffected, ZeroTodo, <<>>, loc[p].cmds)
    /\ toggled' = IF loc[p].n = 0 THEN toggled
                  ELSE Forget(toggled, call[p].id)
    /\ UNCHANGED << todos, seq, clock, readers, call, added, deleted, ever,
                    remover, racing, http, epoch >>

\* -------------------------------------------------------------- DeleteTodo
\* the call and the check of the id
DeleteTodoEnter(p, id) ==
    /\ Call(p, "delete", <<>>, id)
    /\ IF id <= 0
       THEN /\ Return(p, ErrInvalidID, ZeroTodo, <<>>, 0)
            /\ UNCHANGED << todos, seq, clock, writer, readers, added,
                            deleted, ever, toggled, remover, racing, faults,
                            http, epoch >>
       ELSE /\ pc' = [pc EXCEPT ![p] = "delete_lock"]
            /\ UNCHANGED << todos, seq, clock, writer, readers, loc, pre, ret,
                            added, deleted, ever, toggled, remover, racing,
                            faults, http, epoch >>

\* ts.mu.Lock(); ts.db.Exec(DELETE ...) succeeds
DeleteTodoExec(p) ==
    /\ pc[p] = "delete_lock"
    /\ CanLock
    /\ writer' = p
    /\ pre' = [pre EXCEPT ![p] = todos]
    /\ todos' = DeleteWhereId(todos, call[p].id)
    /\ loc' = [loc EXCEPT ![p] = [id |-> 0, now |-> 0,
                                   n |-> RowsAffected(todos, call[p].id),
                                   cmds |-> 1]]
    /\ pc' = [pc EXCEPT ![p] = "delete_rows"]
    /\ toggled' = Forget(toggled, call[p].id)
    /\ remover' = IF RowsAffected(todos, call[p].id) = 0 THEN remover
                  ELSE remover \cup {<< call[p].id, p >>}
    /\ UNCHANGED << seq, clock, readers, call, ret, added, deleted, ever,
                    racing, faults, http, epoch >>

\* ts.mu.Lock(); ts.db.Exec(DELETE ...) fails: nothing is deleted
DeleteTodoExecErr(p) ==
    /\ pc[p] = "delete_lock"
    /\ CanLock
    /\ faults < MaxFaults
    /\ faults' = faults + 1
    /\ Return(p, ErrExec, ZeroTodo, <<>>, 1)
    /\ UNCHANGED << todos, seq, clock, writer, readers, call, added, deleted,
                    ever, toggled, remover, racing, http, epoch >>

\* result.RowsAffected() succeeds: not found when it is 0, nil otherwise
DeleteTodoRowsAffected(p) ==
    /\ pc[p] = "delete_rows"
    /\ writer' = 0
    /\ deleted' = IF loc[p].n = 0 THEN deleted ELSE deleted \cup {call[p].id}
    /\ Return(p, IF loc[p].n = 0 THEN ErrNotFound ELSE Nil, ZeroTodo, <<>>,
              loc[p].cmds)
    /\ UNCHANGED << todos, seq, clock, readers, call, added, ever, toggled,
                    remover, racing, faults, http, epoch >>

\* result.RowsAffected() fails: the error is returned, the row stays deleted
DeleteTodoRowsAffectedErr(p) ==
    /\ pc[p] = "delete_rows"
    /\ faults < MaxFaults
    /\ faults' = faults + 1
    /\ writer' = 0
    /\ Return(p, ErrRowsAffected, ZeroTodo, <<>>, loc[p].cmds)
    /\ UNCHANGED << todos, seq, clock, readers, call, added, deleted, ever,
                    toggled, remover, racing, http, epoch >>

\* ------------------------------------------------------------ specification
Next ==
    \E p \in Procs :
         \/ \E text \in Texts : AddTodoValidate(p, text)
         \/ AddTodoExec(p)
         \/ AddTodoExecErr(p)
         \/ AddTodoLastInsertId(p)
         \/ AddTodoLastInsertIdErr(p)
         \/ GetTodosCall(p)
         \/ GetTodosQuery(p)
         \/ GetTodosQueryErr(p)
         \/ GetTodosRows(p)
         \/ GetTodosRowsScanErr(p)
         \/ GetTodosRowsErr(p)
         \/ \E id \in IdArgs : ToggleTodoEnter(p, id)
         \/ ToggleTodoExec(p)
         \/ ToggleTodoExecErr(p)
         \/ ToggleTodoRowsAffected(p)
         \/ ToggleTodoRowsAffectedErr(p)
         \/ \E id \in IdArgs : DeleteTodoEnter(p, id)
         \/ DeleteTodoExec(p)
         \/ DeleteTodoExecErr(p)
         \/ DeleteTodoRowsAffected(p)
         \/ DeleteTodoRowsAffectedErr(p)
         \/ Done(p)

Spec == Init /\ [][Next]_vars

\* ------------------------------------------------------------ the handlers
\* The handlers of internal/handlers/todo.go, each run by net/http on the
\* goroutine of its request.  A path id is the sequence of the characters
\* after "/todos/toggle/" or "/todos/delete/".  The template of the response
\* is taken to execute without error.  Of a request, http keeps what the
\* handler has read of it: the method, then the form value or the path id.
Methods == {"GET", "POST", "PUT", "DELETE"}

StatusOK == 200
StatusBadRequest == 400
StatusNotFound == 404
StatusMethodNotAllowed == 405
StatusInternalServerError == 500

\* the form values and the path ids the requests carry
FormTexts ==
    { << Run("sp", 3) >>,
      << Run("sp", 2), Run("b", 1), Run("sp", 1), Run("b", 1), Run("sp", 2) >>,
      << Run("a", MaxTextLen + 1) >> }

PathIds == { << "a" >>, << "0" >>, << "1" >>, << "2" >> }

\* the value of a decimal digit, -1 for another character
Digit(c) ==
    CASE c = "0" -> 0 [] c = "1" -> 1 [] c = "2" -> 2 [] c = "3" -> 3
      [] c = "4" -> 4 [] c = "5" -> 5 [] c = "6" -> 6 [] c = "7" -> 7
      [] c = "8" -> 8 [] c = "9" -> 9 [] OTHER -> 0 - 1

\* the number the digits s continue from acc, -1 when one is not a digit
RECURSIVE ParseDigits(_, _)
ParseDigits(s, acc) ==
    IF s = <<>> THEN acc
    ELSE IF Digit(Head(s)) < 0 THEN 0 - 1
    ELSE ParseDigits(Tail(s), acc * 10 + Digit(Head(s)))

\* strconv.Atoi: an optional sign and at least one decimal digit
Atoi(s) ==
    LET signed == s # <<>> /\ Head(s) \in {"-", "+"}
        digits == IF signed THEN Tail(s) ELSE s
        v == IF digits = <<>> THEN 0 - 1 ELSE ParseDigits(digits, 0)
    IN  [ok |-> v >= 0,
         val |-> IF v < 0 THEN 0
                 ELSE IF signed /\ Head(s) = "-" THEN 0 - v ELSE v]

\* the variables of the store, which a handler changes only through the
\* operations of the store
storeVars == << todos, seq, clock, writer, readers, loc, pre, added, deleted,
               ever, racing, faults, toggled, remover, epoch >>

\* a request arrives at a handler of a free goroutine
Request(p, handler, method, text, path, phase, status) ==
    /\ http[p].phase = "idle"
    /\ pc[p] = "idle"
    /\ http[p].n < MaxRequests
    /\ http' = [http EXCEPT ![p] =
                    [handler |-> handler, method |-> method, text |-> text,
                     path |-> path, phase |-> phase, status |-> status,
                     n |-> http[p].n + 1]]
    /\ UNCHANGED << storeVars, pc, call, ret >>

\* the handler has the result of the operation of the store and goes on to
\* phase, or writes the status
Result(p, op, phase, status) ==
    /\ http[p].phase \in {"store", "list"}
    /\ pc[p] = "done"
    /\ call[p].op = op
    /\ http' = [http EXCEPT ![p].phase = phase, ![p].status = status]
    /\ pc' = [pc EXCEPT ![p] = "idle"]
    /\ call' = [call EXCEPT ![p] = NoCall]
    /\ ret' = [ret EXCEPT ![p] = NoRet]
    /\ UNCHANGED storeVars

\* IndexHandler, TodosHandler: GetTodos and the template, whatever the method
TodosHandler(p) ==
    Request(p, "todos", "", <<>>, <<>>, "list", 0)

\* an AddTodoHandler without the check of the method
AddTodoHandler_anyMethod(p, method, text) ==
    Request(p, "add", method, text, <<>>, "store", 0)

\* AddTodoHandler: the check of the method, r.FormValue("text")
AddTodoHandler(p, method, text) ==
    IF method # "POST"
    THEN Request(p, "add", method, <<>>, <<>>, "sent", StatusMethodNotAllowed)
    ELSE Request(p, "add", method, text, <<>>, "store", 0)

\* AddTodoHandler: h.store.AddTodo(text)
AddTodoHandlerAddTodo(p) ==
    /\ http[p].phase = "store"
    /\ http[p].handler = "add"
    /\ AddTodoValidate(p, http[p].text)

\* AddTodoHandler: err of AddTodo: any error is answered 400
AddTodoHandlerResult(p) ==
    IF ret[p].err # Nil
    THEN Result(p, "add", "sent", StatusBadRequest)
    ELSE Result(p, "add", "list", 0)

\* ToggleTodoHandler: the check of the method, strconv.Atoi of the path id
ToggleTodoHandler(p, method, path) ==
    IF method # "PUT"
    THEN Request(p, "toggle", method, <<>>, <<>>, "sent",
                 StatusMethodNotAllowed)
    ELSE IF ~Atoi(path).ok
    THEN Request(p, "toggle", method, <<>>, path, "sent", StatusBadRequest)
    ELSE Request(p, "toggle", method, <<>>, path, "store", 0)

\* ToggleTodoHandler: h.store.ToggleTodo(id)
ToggleTodoHandlerToggleTodo(p) ==
    /\ http[p].phase = "store"
    /\ http[p].handler = "toggle"
    /\ ToggleTodoEnter(p, Atoi(http[p].path).val)

\* ToggleTodoHandler: err of ToggleTodo: 404 for "todo not found", 500 for
\* any other error
ToggleTodoHandlerResult(p) ==
    IF ret[p].err = ErrNotFound
    THEN Result(p, "toggle", "sent", StatusNotFound)
    ELSE IF ret[p].err # Nil
    THEN Result(p, "toggle", "sent", StatusInternalServerError)
    ELSE Result(p, "toggle", "list", 0)

\* DeleteTodoHandler: the check of the method, strconv.Atoi of the path id
DeleteTodoHandler(p, method, path) ==
    IF method # "DELETE"
    THEN Request(p, "delete", method, <<>>, <<>>, "sent",
                 StatusMethodNotAllowed)
    ELSE IF ~Atoi(path).ok
    THEN Request(p, "delete", method, <<>>, path, "sent", StatusBadRequest)
    ELSE Request(p, "delete", method, <<>>, path, "store", 0)

\* DeleteTodoHandler: h.store.DeleteTodo(id)
DeleteTodoHandlerDeleteTodo(p) ==
    /\ http[p].phase = "store"
    /\ http[p].handler = "delete"
    /\ DeleteTodoEnter(p, Atoi(http[p].path).val)

\* DeleteTodoHandler: err of DeleteTodo: 404 for "todo not found", 500 for
\* any other error
DeleteTodoHandlerResult(p) ==
    IF ret[p].err = ErrNotFound
    THEN Result(p, "delete", "sent", StatusNotFound)
    ELSE IF ret[p].err # Nil
    THEN Result(p, "delete", "sent", StatusInternalServerError)
    ELSE Result(p, "delete", "list", 0)

\* every handler, after its operation: h.store.GetTodos()
HandlerGetTodos(p) ==
    /\ http[p].phase = "list"
    /\ GetTodosCall(p)

\* every handler: err of GetTodos is answered 500, the todos are rendered
\* by the template and answered 200
HandlerRender(p) ==
    IF ret[p].err # Nil
    THEN Result(p, "list", "sent", StatusInternalServerError)
    ELSE Result(p, "list", "sent", StatusOK)

\* the response is sent and the goroutine of the request ends
Sent(p) ==
    /\ http[p].phase = "sent"
    /\ http' = [http EXCEPT ![p] = [NoRequest EXCEPT !.n = http[p].n]]
    /\ UNCHANGED << storeVars, pc, call, ret >>

HttpNext ==
    \E p \in Procs :
         \/ TodosHandler(p)
         \/ \E m \in Methods : \E text \in FormTexts :
               AddTodoHandler(p, m, text)
         \/ AddTodoHandlerAddTodo(p)
         \/ AddTodoHandlerResult(p)
         \/ \E m \in Methods : \E path \in PathIds :
               ToggleTodoHandler(p, m, path)
         \/ ToggleTodoHandlerToggleTodo(p)
         \/ ToggleTodoHandlerResult(p)
         \/ \E m \in Methods : \E path \in PathIds :
               DeleteTodoHandler(p, m, path)
         \/ DeleteTodoHandlerDeleteTodo(p)
         \/ DeleteTodoHandlerResult(p)
         \/ HandlerGetTodos(p)
         \/ HandlerRender(p)
         \/ Sent(p)
         \/ AddTodoExec(p)
         \/ AddTodoExecErr(p)
         \/ AddTodoLastInsertId(p)
         \/ AddTodoLastInsertIdErr(p)
         \/ GetTodosQuery(p)
         \/ GetTodosQueryErr(p)
         \/ GetTodosRows(p)
         \/ GetTodosRowsScanErr(p)
         \/ GetTodosRowsErr(p)
         \/ ToggleTodoExec(p)
         \/ ToggleTodoExecErr(p)
         \/ ToggleTodoRowsAffected(p)
         \/ ToggleTodoRowsAffectedErr(p)
         \/ DeleteTodoExec(p)
         \/ DeleteTodoExecErr(p)
         \/ DeleteTodoRowsAffected(p)
         \/ DeleteTodoRowsAffectedErr(p)

HttpSpec == Init /\ [][HttpNext]_vars

\* ------------------------------------------------- the store, few inputs
\* a step of caller p in the store, with the texts and ids it may pass
StoreStep(p, texts, ids) ==
    \/ \E text \in texts : AddTodoValidate(p, text)
    \/ AddTodoExec(p)
    \/ AddTodoExecErr(p)
    \/ AddTodoLastInsertId(p)
    \/ AddTodoLastInsertIdErr(p)
    \/ GetTodosCall(p)
    \/ GetTodosQuery(p)
    \/ GetTodosQueryErr(p)
    \/ GetTodosRows(p)
    \/ GetTodosRowsScanErr(p)
    \/ GetTodosRowsErr(p)
    \/ \E id \in ids : ToggleTodoEnter(p, id)
    \/ ToggleTodoExec(p)
    \/ ToggleTodoExecErr(p)
    \/ ToggleTodoRowsAffected(p)
    \/ ToggleTodoRowsAffectedErr(p)
    \/ \E id \in ids : DeleteTodoEnter(p, id)
    \/ DeleteTodoExec(p)
    \/ DeleteTodoExecErr(p)
    \/ DeleteTodoRowsAffected(p)
    \/ DeleteTodoRowsAffectedErr(p)
    \/ Done(p)

\* one text that is valid, with white space around it
OneText ==
    { << Run("sp", 2), Run("b", 1), Run("sp", 1), Run("b", 1), Run("sp", 2) >> }

\* ------------------------------------------------------------ the restart
\* a restart that opens the store with a sequence of ids that starts again,
\* as a counter kept in memory would
Restart_freshSequence ==
    /\ epoch < MaxRestarts
    /\ \A p \in Procs : pc[p] \in {"idle", "done"}
    /\ epoch' = epoch + 1
    /\ seq' = 0
    /\ writer' = 0
    /\ readers' = {}
    /\ pc' = [p \in Procs |-> "idle"]
    /\ call' = [p \in Procs |-> NoCall]
    /\ loc' = [p \in Procs |-> NoLoc]
    /\ pre' = [p \in Procs |-> {}]
    /\ ret' = [p \in Procs |-> NoRet]
    /\ http' = [p \in Procs |-> NoRequest]
    /\ UNCHANGED << todos, clock, added, deleted, ever, racing, faults,
                    toggled, remover >>

\* main: the server shuts down once the operations in progress have
\* returned and the store is closed (defer store.Close()); the program
\* starts again and NewTodoStore opens the same database file, where
\* CREATE TABLE IF NOT EXISTS leaves the table todos and its sqlite_sequence
\* as they are; the callers and the lock of the old process are gone
Restart ==
    /\ epoch < MaxRestarts
    /\ \A p \in Procs : pc[p] \in {"idle", "done"}
    /\ epoch' = epoch + 1
    /\ writer' = 0
    /\ readers' = {}
    /\ pc' = [p \in Procs |-> "idle"]
    /\ call' = [p \in Procs |-> NoCall]
    /\ loc' = [p \in Procs |-> NoLoc]
    /\ pre' = [p \in Procs |-> {}]
    /\ ret' = [p \in Procs |-> NoRet]
    /\ http' = [p \in Procs |-> NoRequest]
    /\ UNCHANGED << todos, seq, clock, added, deleted, ever, racing, faults,
                    toggled, remover >>

RestartNext ==
    \/ \E p \in Procs : StoreStep(p, OneText, 1..MaxSeq)
    \/ Restart

RestartSpec == Init /\ [][RestartNext]_vars

\* ------------------------------------------------- the caller of GetTodos
\* an edit of a sequence that is the store's own: the task at position i
\* of the collection changes with the element the caller writes
CallerEdits_shared(p) ==
    /\ pc[p] = "done"
    /\ call[p].op = "list"
    /\ ret[p].err = Nil
    /\ \E i \in DOMAIN ret[p].list :
          /\ ret[p].list[i].text # <<>>
          /\ ret' = [ret EXCEPT ![p].list[i].text = <<>>]
          /\ todos' = {IF t.id = ret[p].list[i].id
                          THEN [t EXCEPT !.text = <<>>] ELSE t : t \in todos}
    /\ UNCHANGED << seq, clock, writer, readers, pc, call, loc, pre, added,
                    deleted, ever, toggled, remover, racing, faults, http,
                    epoch >>

\* the caller of GetTodos writes to the slice it was given (here it blanks
\* the Text of the element at position i): the slice was built by this
\* call (var todos []Todo; append(todos, todo)) from values rows.Scan copied
\* out of the database, and Todo holds no pointer, so the write changes the
\* caller's slice and nothing else
CallerEdits(p) ==
    /\ pc[p] = "done"
    /\ call[p].op = "list"
    /\ ret[p].err = Nil
    /\ \E i \in DOMAIN ret[p].list :
          /\ ret[p].list[i].text # <<>>
          /\ ret' = [ret EXCEPT ![p].list[i].text = <<>>]
    /\ UNCHANGED << todos, seq, clock, writer, readers, pc, call, loc, pre,
                    added, deleted, ever, toggled, remover, racing, faults,
                    http, epoch >>

CallerNext ==
    \/ \E p \in Procs : StoreStep(p, OneText, 1..MaxSeq)
    \/ \E p \in Procs : CallerEdits(p)

CallerSpec == Init /\ [][CallerNext]_vars

\* ------------------------------------------------------ the fair schedule
\* the one id the callers of the fair schedule toggle and delete
OneId == {1}

\* the call of the database made with the lock held returns, and the
\* deferred Unlock / RUnlock runs
Section(p) ==
    \/ AddTodoLastInsertId(p)
    \/ AddTodoLastInsertIdErr(p)
    \/ GetTodosRows(p)
    \/ GetTodosRowsScanErr(p)
    \/ GetTodosRowsErr(p)
    \/ ToggleTodoRowsAffected(p)
    \/ ToggleTodoRowsAffectedErr(p)
    \/ DeleteTodoRowsAffected(p)
    \/ DeleteTodoRowsAffectedErr(p)

FairNext == \E p \in Procs : StoreStep(p, OneText, OneId)

\* caller p holds the lock, for writing or for reading
Holds(p) == writer = p \/ p \in readers

\* caller p is blocked in ts.mu.Lock() or ts.mu.RLock()
Blocked(p) ==
    pc[p] \in {"add_lock", "toggle_lock", "delete_lock", "list_rlock"}

\* sync.RWMutex does not let a caller wait for ever while the others keep
\* releasing the lock: a blocked Lock keeps new readers out until the writer
\* has had the lock, and the readers blocked meanwhile are let in when it
\* unlocks. Whatever the order in which it serves them, a caller stays
\* blocked for ever only if some other caller holds the lock for ever
LockFair(p) ==
    (\A q \in Procs \ {p} : []<>~Holds(q)) => []<>~Blocked(p)

\* a goroutine that holds the lock goes on running: the call of the
\* database it makes returns and the deferred unlock runs (weak fairness of
\* the steps made with the lock held); the lock is fair; nothing obliges a
\* caller to call
FairSpec ==
    /\ Init
    /\ [][FairNext]_vars
    /\ \A p \in Procs : WF_vars(Section(p))
    /\ \A p \in Procs : LockFair(p)

\* ---------------------------------------------------------------- the claims
\* the number of characters (runes) of a text
RECURSIVE RuneCount(_)
RuneCount(t) ==
    IF t = <<>> THEN 0
    ELSE Head(t).n + RuneCount(Tail(t))

\* the step in which caller p's operation returns
Returns(p) == pc[p] # "done" /\ pc'[p] = "done"

\* caller p has a result of operation op in hand
Returned(p, op) == pc[p] = "done" /\ call[p].op = op

\* caller p is between the statement of a mutation and its return
InWrite(p) == pc[p] \in {"add_lastid", "toggle_rows", "delete_rows"}

\* caller p is reading the rows of its query
InRead(p) == pc[p] = "list_rows"

\* caller p waits for the lock
Waits(p) == pc[p] \in {"add_lock", "toggle_lock", "delete_lock", "list_rlock"}

\* C1: the ids returned by successful Add calls are pairwise distinct, and no
\* two tasks in the collection share an id
C1_UniqueIds ==
    /\ \A t1, t2 \in todos : t1.id = t2.id => t1 = t2
    /\ \A i, j \in DOMAIN added : i # j => added[i] # added[j]

\* C1 witness: two Adds have returned, a Delete has succeeded and a task is
\* in the collection
C1_Witness ==
    /\ Len(added) >= 2
    /\ deleted # {}
    /\ todos # {}

\* C2: once Delete(id) has succeeded, no later Add returns that id and no
\* later row gets it
C2_NoReuse ==
    [][/\ \A p \in Procs :
            (Returns(p) /\ call[p].op = "add" /\ ret'[p].err = Nil)
                => ret'[p].todo.id \notin deleted
       /\ \A t \in todos' : t.id \notin Ids(todos) => t.id \notin deleted]_vars

\* C2 witness: an Add has inserted its row after a Delete succeeded, into a
\* collection the Deletes had emptied
C2_Witness ==
    \E p \in Procs :
        /\ pc[p] = "add_lastid"
        /\ deleted # {}
        /\ pre[p] = {}
        /\ Ids(todos) = {loc[p].id}

\* C3: no two mutations are in their critical sections at once, and no List
\* reads while a mutation is in its critical section
C3_Exclusion ==
    /\ \A p, q \in Procs :
          (p # q /\ InWrite(p)) => ~InWrite(q) /\ ~InRead(q)
    /\ \A p \in Procs : InWrite(p) <=> writer = p
    /\ \A p \in Procs : InRead(p) <=> p \in readers

\* C3 witness: a mutation is in its critical section while another caller
\* waits for the lock
C3_Witness ==
    \E p, q \in Procs : p # q /\ InWrite(p) /\ Waits(q)

\* C4 as claimed: an operation called after another returned observes its
\* effect: a List that succeeds holds every task whose Add had returned when
\* the List was called and that is still in the collection, and a Toggle
\* called after a Delete of its id succeeded reports not found
C4_Linearizable ==
    \A p \in Procs :
        /\ (Returned(p, "list") /\ ret[p].err = Nil)
              => \A id \in call[p].seen \cap Ids(todos) :
                    \E i \in DOMAIN ret[p].list : ret[p].list[i].id = id
        /\ (Returned(p, "toggle") /\ call[p].gone
                /\ ret[p].err \notin StorageErrors)
              => ret[p].err = ErrNotFound

\* the Adds ran concurrently and all returned with success before caller p
\* called List, nothing else ever wrote to the collection, and their texts
\* are pairwise different
C5_Scenario(p) ==
    /\ Len(added) >= 2
    /\ racing = Range(added)
    /\ call[p].seen = Range(added)
    /\ ever = Range(added)
    /\ Ids(todos) = ever
    /\ deleted = {}
    /\ \A t1, t2 \in todos : t1.text = t2.text => t1 = t2

\* C5 as claimed: N Adds of valid, pairwise different texts all succeed (but
\* for one the database refuses), and a List taken after all have returned
\* holds exactly N tasks, one per Add, none twice and none missing
C5_ConcurrentAdds ==
    \A p \in Procs :
        /\ (Returned(p, "add") /\ validateTodoText(call[p].text) = Nil
                /\ ret[p].err \notin StorageErrors)
              => ret[p].err = Nil
        /\ (Returned(p, "list") /\ ret[p].err = Nil /\ C5_Scenario(p))
              => /\ Len(ret[p].list) = Len(added)
                 /\ {<< t.id, t.text >> : t \in Range(ret[p].list)}
                      = {<< t.id, t.text >> : t \in todos}

\* C6 as claimed: when Add, Toggle or Delete returns an error, the collection
\* is as it was before the call
C6_ErrorNoMutation ==
    [][\A p \in Procs :
         (Returns(p) /\ call'[p].op \in {"add", "toggle", "delete"}
             /\ ret'[p].err # Nil)
           => todos' = (IF InWrite(p) THEN pre[p] ELSE todos)]_vars

\* C7 as claimed: Add succeeds exactly when the trimmed text is non-empty and
\* at most 500 characters long; a longer one fails as too long and an empty
\* one as empty
C7_ValidationBoundary ==
    \A p \in Procs :
        (Returned(p, "add") /\ ret[p].err \notin StorageErrors)
          => LET t == TrimSpace(call[p].text)
             IN  /\ ret[p].err = Nil
                       <=> (t # <<>> /\ RuneCount(t) <= MaxTextLen)
                 /\ RuneCount(t) > MaxTextLen => ret[p].err = ErrTooLong
                 /\ t = <<>> => ret[p].err = ErrEmpty

\* C8: an Add whose text is empty after trimming or too long returns a
\* validation error at once, and an Add that returns a validation error has
\* issued no statement and left the rows, the id sequence and the lock as
\* they were, so the next Add gets the id it would have got
C8_ValidationNoMutation ==
    [][\A p \in Procs :
         (pc[p] = "idle" /\ call'[p].op = "add")
           => LET t == TrimSpace(call'[p].text)
              IN  /\ (t = <<>> \/ RuneCount(t) > MaxTextLen)
                        => (pc'[p] = "done" /\ ret'[p].err \in ValidationErrors)
                  /\ (pc'[p] = "done" /\ ret'[p].err \in ValidationErrors)
                        => /\ ret'[p].cmds = 0
                           /\ todos' = todos
                           /\ seq' = seq
                           /\ ever' = ever
                           /\ writer' = writer /\ readers' = readers
                           /\ AutoIncrement(todos', seq')
                                = AutoIncrement(todos, seq)]_vars

\* C8 witness: an Add has returned a validation error while the collection
\* holds a task
C8_Witness ==
    \E p \in Procs :
        /\ Returned(p, "add")
        /\ ret[p].err \in ValidationErrors
        /\ todos # {}

\* C9: a successful Add returns the trimmed text, completed false and an id
\* that is not zero, and the collection is then the one it found plus
\* exactly the returned task, under an id no task had
C9_AddResult ==
    [][\A p \in Procs :
         (Returns(p) /\ call[p].op = "add" /\ ret'[p].err = Nil)
           => LET t == ret'[p].todo
              IN  /\ t.text = TrimSpace(call[p].text)
                  /\ t.completed = FALSE
                  /\ t.id # 0
                  /\ t.created_at = loc[p].now
                  /\ t.id \notin Ids(pre[p])
                  /\ todos' = pre[p] \cup {t}]_vars

\* C9 witness: an Add of a text with surrounding white space has returned
\* with success while the collection held another task
C9_Witness ==
    \E p \in Procs :
        /\ Returned(p, "add")
        /\ ret[p].err = Nil
        /\ ret[p].todo.text # call[p].text
        /\ ret[p].todo \in todos
        /\ Cardinality(todos) >= 2

\* C10: every new row gets the largest id a row ever had plus one (1 in a
\* store that never held a task), and a successful Add returns the id of its
\* row, which is positive and larger than every id returned before
C10_NextId ==
    [][/\ \A t \in todos' : t.id \notin Ids(todos) => t.id = MaxOf(ever) + 1
       /\ \A p \in Procs :
            (Returns(p) /\ call[p].op = "add" /\ ret'[p].err = Nil)
              => /\ ret'[p].todo.id = MaxOf(ever)
                 /\ ret'[p].todo.id \in Ids(todos')
                 /\ ret'[p].todo.id > 0
                 /\ \A i \in DOMAIN added : added[i] < ret'[p].todo.id]_vars

\* C10 witness: an Add has inserted a row with an id above 1 after the task
\* with the largest id had been deleted
C10_Witness ==
    \E p \in Procs :
        /\ pc[p] = "add_lastid"
        /\ loc[p].id > 1
        /\ MaxOf(Ids(pre[p])) < loc[p].id - 1

\* the rows caller p's statement found: the rows when it took the write
\* lock, or the rows now when it has not taken it
Found(p) == IF InWrite(p) THEN pre[p] ELSE todos

\* the step in which caller p's operation op returns
ReturnsFrom(p, op) == Returns(p) /\ call[p].op = op

\* C11: a Toggle that succeeds leaves the task's completed flag the negation
\* of what it was (never just true), and two Toggles of an id that succeed
\* with no other Toggle or Delete of that id between them leave the flag as
\* it was before the first
C11_ToggleInvolution ==
    [][\A p \in Procs :
         (ReturnsFrom(p, "toggle") /\ ret'[p].err = Nil)
           => LET id == call[p].id
              IN  /\ id \in Ids(pre[p])
                  /\ id \in Ids(todos')
                  /\ RowOf(todos', id).completed = ~RowOf(pre[p], id).completed
                  /\ \A h \in toggled :
                        h.id = id
                          => RowOf(todos', id).completed = h.before]_vars

\* C11 witness: with no failure of the database, a Toggle has succeeded on a
\* task that was completed, that is one a Toggle before it had completed
C11_Witness ==
    \E p \in Procs :
        /\ Returned(p, "toggle")
        /\ ret[p].err = Nil
        /\ faults = 0
        /\ \E h \in toggled : h.id = call[p].id /\ h.before = TRUE
        /\ \E t \in todos : t.id = call[p].id /\ t.completed = FALSE

\* C12: no step changes the text or created_at of a task, only the UPDATE of
\* a Toggle of its id changes its completed flag, and a Toggle that succeeds
\* leaves the set of tasks and every other task as they were
C12_ToggleFrame ==
    [][/\ \A t \in todos : \A u \in todos' :
            t.id = u.id
              => /\ u.text = t.text
                 /\ u.created_at = t.created_at
                 /\ u.completed # t.completed
                      => \E p \in Procs : /\ pc[p] = "toggle_lock"
                                          /\ pc'[p] = "toggle_rows"
                                          /\ call[p].id = t.id
       /\ \A p \in Procs :
            (ReturnsFrom(p, "toggle") /\ ret'[p].err = Nil)
              => /\ Ids(todos') = Ids(pre[p])
                 /\ \A t \in pre[p] : t.id # call[p].id => t \in todos'
                 /\ todos' = (pre[p] \ {RowOf(pre[p], call[p].id)})
                       \cup {[RowOf(pre[p], call[p].id) EXCEPT
                                !.completed = ~@]}]_vars

\* C12 witness: a Toggle has succeeded in a collection of two tasks, the
\* other of which is completed
C12_Witness ==
    \E p \in Procs :
        /\ Returned(p, "toggle")
        /\ ret[p].err = Nil
        /\ Cardinality(todos) >= 2
        /\ \E t \in todos : t.id # call[p].id /\ t.completed

\* C13: a Toggle or Delete of an id <= 0 returns the invalid-id error at
\* once: it takes no lock, sends no statement and leaves the rows and the id
\* sequence as they were; no other id gets that error
C13_InvalidId ==
    [][\A p \in Procs :
         /\ (pc[p] = "idle" /\ call'[p].op \in {"toggle", "delete"}
                /\ call'[p].id <= 0)
              => /\ pc'[p] = "done"
                 /\ ret'[p].err = ErrInvalidID
                 /\ ret'[p].cmds = 0
                 /\ todos' = todos /\ seq' = seq
                 /\ writer' = writer /\ readers' = readers
         /\ (Returns(p) /\ ret'[p].err = ErrInvalidID)
              => /\ call'[p].op \in {"toggle", "delete"}
                 /\ call'[p].id <= 0]_vars

\* C13 witness: Toggle(0) and Delete(-1) have returned the invalid-id error
\* while the collection holds a task
C13_Witness ==
    \E p, q \in Procs :
        /\ Returned(p, "toggle") /\ call[p].id = 0
        /\ ret[p].err = ErrInvalidID
        /\ Returned(q, "delete") /\ call[q].id = 0 - 1
        /\ ret[q].err = ErrInvalidID
        /\ todos # {}

\* C14: a Toggle or Delete of an id > 0 that no task of the collection has
\* returns the not-found error (the error of the database when the database
\* failed the call) and leaves the collection as it was; the not-found error
\* is returned for no id a task has
C14_NotFound ==
    [][\A p \in Procs :
         (Returns(p) /\ call'[p].op \in {"toggle", "delete"}
             /\ call'[p].id > 0)
           => /\ call'[p].id \notin Ids(Found(p))
                 => /\ ret'[p].err \in {ErrNotFound} \cup StorageErrors
                    /\ faults' = faults => ret'[p].err = ErrNotFound
                    /\ todos' = Found(p)
              /\ ret'[p].err = ErrNotFound
                 => call'[p].id \notin Ids(Found(p))]_vars

\* C14 witness: a Toggle of an id whose task was deleted and a Delete of an
\* id no task ever had have both returned the not-found error
C14_Witness ==
    \E p, q \in Procs :
        /\ Returned(p, "toggle") /\ call[p].gone
        /\ ret[p].err = ErrNotFound
        /\ Returned(q, "delete") /\ call[q].id \notin ever
        /\ ret[q].err = ErrNotFound

\* C15: a Delete that succeeds removes the task of its id and no other row;
\* no task of a deleted id is in the collection or in a List taken later, and
\* a Toggle or Delete called after the Delete succeeded returns the not-found
\* error (the error of the database when the database failed the call)
C15_DeleteExact ==
    [][/\ \A t \in todos' : t.id \notin deleted'
       /\ \A p \in Procs :
            /\ (ReturnsFrom(p, "delete") /\ ret'[p].err = Nil)
                 => /\ call[p].id \in Ids(pre[p])
                    /\ todos' = pre[p] \ {RowOf(pre[p], call[p].id)}
            /\ (ReturnsFrom(p, "list") /\ ret'[p].err = Nil)
                 => \A i \in DOMAIN ret'[p].list :
                       ret'[p].list[i].id \notin deleted
            /\ (Returns(p) /\ call'[p].gone)
                 => /\ ret'[p].err \in {ErrNotFound} \cup StorageErrors
                    /\ faults' = faults => ret'[p].err = ErrNotFound]_vars

\* C15 witness: after a Delete succeeded, a second Delete of the id has
\* returned the not-found error and a List has returned the task that is left
C15_Witness ==
    \E p, q \in Procs :
        /\ Returned(p, "delete") /\ call[p].gone
        /\ ret[p].err = ErrNotFound
        /\ Returned(q, "list") /\ ret[q].err = Nil
        /\ Len(ret[q].list) = 1
        /\ Range(ret[q].list) = todos

\* C16 as claimed: a List that succeeds returns every task of the collection
\* exactly once, a task created later before a task created earlier
C16_ListOrder ==
    [][\A p \in Procs :
         (ReturnsFrom(p, "list") /\ ret'[p].err = Nil)
           => LET l == ret'[p].list
              IN  /\ Range(l) = todos
                  /\ Len(l) = Cardinality(todos)
                  /\ \A i, j \in DOMAIN l :
                        i < j => l[i].created_at >= l[j].created_at]_vars

\* C17 as claimed: in a List, of two tasks with the same created_at the one
\* with the larger id comes first
C17_TieBreak ==
    \A p \in Procs :
        (Returned(p, "list") /\ ret[p].err = Nil)
          => \A i, j \in DOMAIN ret[p].list :
                (i < j /\ ret[p].list[i].created_at = ret[p].list[j].created_at)
                  => ret[p].list[i].id > ret[p].list[j].id

\* caller p's Toggle and caller q's Delete of the same id, in the collection
\* when each was called, have both returned, neither with an error of the
\* database, and no other caller removed the task
C18_Race(p, q) ==
    /\ p # q
    /\ Returned(p, "toggle") /\ Returned(q, "delete")
    /\ call[p].id = call[q].id
    /\ call[p].live /\ call[q].live
    /\ ret[p].err \notin StorageErrors /\ ret[q].err \notin StorageErrors
    /\ \A r \in Procs \ {q} : << call[q].id, r >> \notin remover

\* C18: of a Toggle and a Delete of the same task that race, the Delete
\* succeeds, the Toggle succeeds or returns not found, the task is gone when
\* both have returned; a Toggle never succeeds once a DELETE removed the
\* task, and the statement of either changes no other task
C18_ToggleDeleteRace ==
    /\ [](\A p, q \in Procs :
            C18_Race(p, q)
              => /\ ret[q].err = Nil
                 /\ ret[p].err \in {Nil, ErrNotFound}
                 /\ call[p].id \notin Ids(todos))
    /\ [][\A p \in Procs :
            /\ (ReturnsFrom(p, "toggle") /\ ret'[p].err = Nil)
                 => \A r \in Procs : << call[p].id, r >> \notin remover
            /\ (ReturnsFrom(p, "toggle")
                  /\ \E r \in Procs : << call[p].id, r >> \in remover
                  /\ faults' = faults)
                 => ret'[p].err = ErrNotFound
            /\ (pc[p] \in {"toggle_lock", "delete_lock"} /\ InWrite(p)')
                 => {t \in todos' : t.id # call[p].id}
                      = {t \in todos : t.id # call[p].id}]_vars

\* C18 witness: a Toggle and a Delete of a task that both were called while
\* it was in the collection have returned, the Delete with success and the
\* Toggle, which took the lock second, with not found; another task is left
C18_Witness ==
    \E p, q \in Procs :
        /\ C18_Race(p, q)
        /\ ret[p].err = ErrNotFound
        /\ ret[q].err = Nil
        /\ todos # {}

\* the kinds of the errors the store returns
Kinds == << ValidationErrors, {ErrInvalidID}, {ErrNotFound}, StorageErrors >>

\* C19: an error the store returns is of exactly one of the four kinds, which
\* the caller tells apart by its value, and a Toggle or Delete that the
\* database failed returns an error of the database, not nil nor not found
C19_ErrorKinds ==
    [][\A p \in Procs :
         Returns(p)
           => /\ ret'[p].err # Nil
                 => Cardinality({k \in DOMAIN Kinds :
                                    ret'[p].err \in Kinds[k]}) = 1
              /\ (call'[p].op \in {"toggle", "delete"} /\ faults' # faults)
                   => ret'[p].err \in StorageErrors
              /\ (call'[p].op \in {"toggle", "delete"} /\ faults' = faults)
                   => ret'[p].err \notin StorageErrors]_vars

\* C19 witness: a Toggle the database failed after the UPDATE and a Delete
\* of an id that is not there have returned, each with its error
C19_Witness ==
    \E p, q \in Procs :
        /\ Returned(p, "toggle") /\ ret[p].err = ErrRowsAffected
        /\ Returned(q, "delete") /\ ret[q].err = ErrNotFound

\* C20 as claimed: a List returns every task of the collection or an error
\* of the database: when reading a row fails it returns an error, and when
\* it returns nil no task of the collection is missing
C20_ListNoSwallow ==
    [][\A p \in Procs :
         ReturnsFrom(p, "list")
           => /\ faults' # faults => ret'[p].err \in StorageErrors
              /\ ret'[p].err = Nil
                   => todos \subseteq Range(ret'[p].list)]_vars

\* C22: in every state, the text of every task of the collection is not
\* empty, has no white space at its start or end, and has at most 500
\* characters
C22_TextInvariant ==
    \A t \in todos :
        /\ t.text # <<>>
        /\ ~IsSpace(Head(t.text).ch)
        /\ ~IsSpace(t.text[Len(t.text)].ch)
        /\ RuneCount(t.text) <= MaxTextLen

\* C22 witness: the collection holds a task of 500 characters that was
\* submitted with white space around it, and another task
C22_Witness ==
    /\ Cardinality(todos) >= 2
    /\ \E t \in todos : RuneCount(t.text) = MaxTextLen
    /\ \E p \in Procs : /\ Returned(p, "add")
                         /\ ret[p].err = Nil
                         /\ ret[p].todo.text # call[p].text

\* C23 as claimed: the tasks stored and not deleted are in the collection
\* also after a restart and a List taken after a restart holds them all; an
\* Add after a restart gets the largest id any task ever had plus one, so
\* an id above every id issued before, those of deleted tasks included
C23_Durable ==
    /\ [](Ids(todos) = ever \ {r[1] : r \in remover})
    /\ [][/\ epoch' # epoch => (todos' = todos /\ ever' = ever)
          /\ \A t \in todos' :
                t.id \notin Ids(todos) => t.id = MaxOf(ever) + 1
          /\ \A p \in Procs :
               /\ (ReturnsFrom(p, "list") /\ epoch > 0 /\ ret'[p].err = Nil)
                    => todos \subseteq Range(ret'[p].list)
               /\ (ReturnsFrom(p, "add") /\ epoch > 0 /\ ret'[p].err = Nil)
                    => /\ ret'[p].todo.id = MaxOf(ever)
                       /\ ret'[p].todo.id \notin deleted
                       /\ \A i \in DOMAIN added :
                             added[i] < ret'[p].todo.id]_vars

\* the method the handler of a request serves
RightMethod(handler) ==
    CASE handler = "add" -> "POST"
      [] handler = "toggle" -> "PUT"
      [] handler = "delete" -> "DELETE"
      [] OTHER -> ""

\* the step in which the handler of p's request writes its response
Responds(p) == http[p].phase # "sent" /\ http'[p].phase = "sent"

\* C24 as claimed: a toggle or delete request whose path id is not an
\* integer, or is an integer <= 0, is answered 400, one whose id no task has
\* is answered 404, and neither changes the collection
C24_BadIdStatus ==
    [][\A p \in Procs :
         (Responds(p) /\ http'[p].handler \in {"toggle", "delete"}
             /\ http'[p].method = RightMethod(http'[p].handler))
           => LET id == Atoi(http'[p].path)
              IN  /\ (~id.ok \/ id.val <= 0)
                       => (http'[p].status = StatusBadRequest /\ todos' = todos)
                  /\ (id.ok /\ id.val > 0 /\ http[p].phase = "store"
                        /\ ret[p].err = ErrNotFound)
                       => (http'[p].status = StatusNotFound /\ todos' = todos)
                  /\ http'[p].status = StatusNotFound
                       => (id.ok /\ id.val > 0 /\ http[p].phase = "store"
                             /\ ret[p].err = ErrNotFound)]_vars

\* C25: a request to the add, toggle or delete handler with another method
\* than POST, PUT or DELETE is answered 405 at once, no other request is,
\* and its goroutine calls no operation of the store and leaves the
\* collection as it was
C25_MethodNotAllowed ==
    /\ [](\A p \in Procs :
            http[p].status = StatusMethodNotAllowed
              => /\ http[p].method # RightMethod(http[p].handler)
                 /\ http[p].handler \in {"add", "toggle", "delete"}
                 /\ pc[p] = "idle" /\ call[p] = NoCall)
    /\ [][\A p \in Procs :
            (http[p].phase = "idle" /\ http'[p].phase # "idle"
                /\ http'[p].handler \in {"add", "toggle", "delete"}
                /\ http'[p].method # RightMethod(http'[p].handler))
              => /\ http'[p].phase = "sent"
                 /\ http'[p].status = StatusMethodNotAllowed
                 /\ pc'[p] = "idle" /\ call'[p] = NoCall
                 /\ todos' = todos /\ seq' = seq
                 /\ writer' = writer /\ readers' = readers]_vars

\* C25 witness: a GET to the add handler and a POST to the delete handler
\* have been answered 405 while the collection holds a task
C25_Witness ==
    \E p, q \in Procs :
        /\ http[p].handler = "add" /\ http[p].method = "GET"
        /\ http[p].status = StatusMethodNotAllowed
        /\ http[q].handler = "delete" /\ http[q].method = "POST"
        /\ http[q].status = StatusMethodNotAllowed
        /\ todos # {}

\* C26 as claimed: the add handler answers 400 exactly when AddTodo returned
\* a validation error, and a server error when the database failed the Add
C26_AddStatus ==
    [][\A p \in Procs :
         (Responds(p) /\ http[p].phase = "store" /\ http'[p].handler = "add")
           => /\ http'[p].status = StatusBadRequest
                   <=> validateTodoText(http'[p].text) # Nil
              /\ ret[p].err \in StorageErrors
                   => http'[p].status = StatusInternalServerError]_vars


\* C21: List returns a snapshot copy. While a caller holds the sequence a
\* List returned, a step that changes the collection (a later Add, Toggle or
\* Delete) leaves that sequence as it is; a step that changes the sequence
\* (the caller's own edit) leaves the collection, the sequence of ids and
\* what every other caller holds as they are; and every List that returns
\* hands out rows of the collection, in which no edit of a caller shows
C21_Snapshot ==
    [][\A p \in Procs :
          /\ (Returned(p, "list") /\ pc'[p] = "done" /\ todos' # todos)
                => ret'[p].list = ret[p].list
          /\ (Returned(p, "list") /\ pc'[p] = "done"
                /\ ret'[p].list # ret[p].list)
                => /\ todos' = todos
                   /\ seq' = seq
                   /\ \A q \in Procs \ {p} : ret'[q] = ret[q]
          /\ ReturnsFrom(p, "list")
                => /\ Range(ret'[p].list) \subseteq todos
                   /\ \A i \in DOMAIN ret'[p].list :
                         ret'[p].list[i].text # <<>>]_vars

\* a caller holds a sequence it has edited, the collection has changed since
\* (the task edited is completed there) and another caller holds the
\* sequence of a List that shows the collection as it is
C21_Witness ==
    \E p \in Procs : \E q \in Procs \ {p} :
        /\ Returned(p, "list")
        /\ Returned(q, "list")
        /\ ret[p].list # <<>>
        /\ ret[p].list[1].text = <<>>
        /\ ~ret[p].list[1].completed
        /\ ret[q].list # <<>>
        /\ Range(ret[q].list) = todos
        /\ \E t \in todos : t.id = ret[p].list[1].id /\ t.completed

\* C27: an operation that has returned (or a caller that has not called)
\* holds neither the write lock nor a read lock, whatever the return path;
\* and, the lock being fair and every call of the database returning, every
\* Add, List, Toggle and Delete that was invoked returns
C27_Terminates ==
    /\ [](\A p \in Procs :
             pc[p] \in {"idle", "done"} => writer # p /\ p \notin readers)
    /\ \A p \in Procs : (pc[p] \notin {"idle", "done"}) ~> (pc[p] = "done")

\* an operation has returned an error after it took the lock (an error of
\* the database, or todo not found), and another caller now holds the lock
C27_Witness ==
    \E p \in Procs : \E q \in Procs \ {p} :
        /\ pc[p] = "done"
        /\ ret[p].err \in {ErrExec, ErrLastInsertId, ErrRowsAffected, ErrRows,
                           ErrNotFound}
        /\ ret[p].cmds >= 1
        /\ writer = q
====
